---- MODULE Spec2Model ----
(***************************************************************************)
(* Control logic of the pdf-rs browser viewer front end.                   *)
(*                                                                         *)
(* Two page scripts are modelled, selected by the variable script:         *)
(*   "part_000"  src/unnamed/part_000                                      *)
(*   "index"     src/view/index.js (the whole file: the function           *)
(*               declarations of lines 46-113 replace the same-named ones  *)
(*               of lines 6-35 by hoisting, and both top-level             *)
(*               wasm_bindgen(...) calls run)                              *)
(* The engine (wasm_bindgen.show and the methods of the handle it returns) *)
(* is external: what it returns or throws is an input of the actions.      *)
(***************************************************************************)
EXTENDS Naturals, Sequences, FiniteSets

VARIABLES
    script,      \* which page script runs
    boot0,       \* index.js:1 promise: "none" | "pending" | "ok" | "failed"
    boot,        \* the promise chained to show_logo: "pending" | "ok" | "failed"
    loads,       \* every load issued, in issue order (fetch of logo.pdf, FileReaders),
                 \*   each "reading" or "done"
    view,        \* the global `view`: id of the load it was created from, NoView if undefined
    scheds,      \* one entry per init_view that got past wasm_bindgen.show:
                 \*   its `requested` flag and the six listeners it registered
    raf,         \* the browser's list of requestAnimationFrame callbacks, as the
                 \*   number of callbacks of each scheduler in it (the callbacks of
                 \*   one frame touch disjoint flags, so their order is not kept)
    msg,         \* innerText of #msg
    dropHidden,  \* #drop has style.display = "none"
    calls,       \* engine calls made by the last step, in order
    renders,     \* engine draw calls (render, animation_frame) made before the
                 \*   user first did anything
    reqs,        \* check(true) has been called since the last frame
    interacted,  \* the user has dropped or picked a file, or an input event occurred
    last         \* the last step taken

vars == <<script, boot0, boot, loads, view, scheds, raf, msg, dropHidden,
          calls, renders, reqs, interacted, last>>

\* Bounds of the model.
MaxLoads == 2      \* files dropped or picked

NoView == 0

Scripts == {"part_000", "index"}
Kinds == {"keydown", "keyup", "mousemove", "mouseup", "mousedown", "resize"}
\* What the engine does with a buffer: accepts it, throws in wasm_bindgen.show,
\* or returns a handle whose first render() throws.
Data == {"Good", "BadParse", "BadRender"}

Step(act, id, kind, k, n) == [act |-> act, id |-> id, kind |-> kind, k |-> k, n |-> n]

\* The engine's exports are callable once some wasm_bindgen(...) promise has resolved.
Ready == boot = "ok" \/ boot0 = "ok"

Reading == {i \in DOMAIN loads : loads[i].st = "reading"}
FileLoads == {i \in DOMAIN loads : loads[i].src = "file"}

\* The engine method a listener for `kind` calls.
Handler(s, kind) ==
    CASE kind = "keydown" -> "key_down"
      [] kind = "keyup" -> "key_up"
      [] kind = "mousemove" -> "mouse_move"
      [] kind = "mouseup" -> "mouse_up"
      [] kind = "mousedown" -> IF s = "index" THEN "mouse_move" ELSE "mouse_down"
      [] kind = "resize" -> "resize"

\* Mutant of Target: each closure keeps the handle its own init_view created
\* (`let view` inside init_view).
TargetOwn(i) == scheds[i].own

\* The handle a listener or frame callback of scheduler i calls: the global view.
Target(i) == view

\* Mutant of Check: `requested = true` is moved out of the if, so the flag is
\* set by every call, whether or not a callback was scheduled.
CheckAlwaysFlags(st, i, request_redraw) ==
    IF request_redraw
    THEN IF ~st.scheds[i].req
         THEN [scheds |-> [st.scheds EXCEPT ![i].req = TRUE],
               raf |-> [st.raf EXCEPT ![i] = @ + 1],
               k |-> TRUE]
         ELSE [st EXCEPT !.k = TRUE]
    ELSE [st EXCEPT !.scheds[i].req = TRUE]

\* Mutant of Check: the test of `requested` is dropped
\* (`if (request_redraw) {...}`), so every true result schedules a callback.
CheckNoDedup(st, i, request_redraw) ==
    IF request_redraw
    THEN [scheds |-> [st.scheds EXCEPT ![i].req = TRUE],
          raf |-> [st.raf EXCEPT ![i] = @ + 1],
          k |-> TRUE]
    ELSE st

\* check(request_redraw) of scheduler i, on st = [scheds, raf, k].
Check(st, i, request_redraw) ==
    IF request_redraw
    THEN IF ~st.scheds[i].req
         THEN [scheds |-> [st.scheds EXCEPT ![i].req = TRUE],
               raf |-> [st.raf EXCEPT ![i] = @ + 1],
               k |-> TRUE]
         ELSE [st EXCEPT !.k = TRUE]
    ELSE st

\* One event dispatched to the listeners of schedulers i..Len(scheds), in
\* registration order; rets[i] is what the engine returns to listener i.
RECURSIVE Dispatch(_, _, _)
Dispatch(st, i, rets) ==
    IF i > Len(st.scheds) THEN st
    ELSE Dispatch(Check(st, i, rets[i]), i + 1, rets)

\* Mutant of AnimationFrame: the draw step comes first
\* (`view.animation_frame(time); requested = false;`), so a throw skips the
\* assignment.
AnimationFrameDrawsFirst(s, i, throws) ==
    IF throws THEN s ELSE [s EXCEPT ![i].req = FALSE]

\* animation_frame(time) of scheduler i: clears its flag, then calls the
\* engine's animation_frame, which returns or throws.
AnimationFrame(s, i, throws) == [s EXCEPT ![i].req = FALSE]

\* The callbacks of one frame: those of schedulers i..Len(s) in the list q;
\* threw is the set of schedulers whose draw step throws. An exception in one
\* callback is reported by the browser and the next callback still runs.
RECURSIVE RunFrame(_, _, _, _)
RunFrame(s, q, i, threw) ==
    IF i > Len(s) THEN s
    ELSE RunFrame(IF q[i] > 0 THEN AnimationFrame(s, i, i \in threw) ELSE s,
                  q, i + 1, threw)

\* Number of callbacks in the list q.
RECURSIVE Count(_)
Count(q) == IF q = <<>> THEN 0 ELSE Head(q) + Count(Tail(q))

\* One engine call: the method, the handle it is made on, and the scheduler
\* whose listener or callback made it (0: init_view itself).
Call(op, v, by) == [op |-> op, v |-> v, by |-> by]

\* The engine calls of q[i] listeners or callbacks of each scheduler i, from
\* scheduler i on, each on the handle it sees.
RECURSIVE CallsOf(_, _, _)
CallsOf(op, q, i) ==
    IF i > Len(q) THEN <<>>
    ELSE [j \in 1..q[i] |-> Call(op, Target(i), i)] \o CallsOf(op, q, i + 1)

\* wasm_bindgen.show(canvas, data)
EngineShow(ready, data) ==
    IF ready /\ data # "BadParse" THEN "ok" ELSE "throw"

\* display(msg): `delete style.display` leaves the inline style as it is.
Display(m) == msg' = m /\ UNCHANGED dropHidden

\* What show_data's catch leaves in #msg.
ErrorMsg(s) == IF s = "index" THEN "exception" ELSE "oops"

\* renders after n more draw calls.
Drawn(n) == IF interacted THEN renders ELSE renders + n

\* Mutant of InitView: the old handle is dropped before the buffer is parsed
\* (`view = undefined` ahead of wasm_bindgen.show).
InitViewClears(id, data) ==
    IF EngineShow(Ready, data) = "throw"
    THEN [threw |-> TRUE, view |-> NoView, scheds |-> scheds, raf |-> raf,
          calls |-> <<Call("show", NoView, 0)>>, drawn |-> 0]
    ELSE [threw |-> data = "BadRender", view |-> id,
          scheds |-> Append(scheds, [req |-> FALSE, own |-> id]),
          raf |-> Append(raf, 0),
          calls |-> <<Call("show", NoView, 0), Call("render", id, 0)>>, drawn |-> 1]

\* Mutant of InitView: the listeners are registered ahead of wasm_bindgen.show,
\* so they are registered even when it throws.
InitViewListensFirst(id, data) ==
    IF EngineShow(Ready, data) = "throw"
    THEN [threw |-> TRUE, view |-> view,
          scheds |-> Append(scheds, [req |-> FALSE, own |-> id]),
          raf |-> Append(raf, 0),
          calls |-> <<Call("show", NoView, 0)>>, drawn |-> 0]
    ELSE [threw |-> data = "BadRender", view |-> id,
          scheds |-> Append(scheds, [req |-> FALSE, own |-> id]),
          raf |-> Append(raf, 0),
          calls |-> <<Call("show", NoView, 0), Call("render", id, 0)>>, drawn |-> 1]

\* Mutant of InitView: init_view ends with check(true) instead of leaving the
\* first draw to view.render() alone.
InitViewRequestsFrame(id, data) ==
    IF EngineShow(Ready, data) = "throw"
    THEN [threw |-> TRUE, view |-> view, scheds |-> scheds, raf |-> raf,
          calls |-> <<Call("show", NoView, 0)>>, drawn |-> 0]
    ELSE [threw |-> data = "BadRender", view |-> id,
          scheds |-> Append(scheds, [req |-> data = "Good", own |-> id]),
          raf |-> Append(raf, IF data = "Good" THEN 1 ELSE 0),
          calls |-> <<Call("show", NoView, 0), Call("render", id, 0)>>, drawn |-> 1]

\* init_view(data) for load id: what it leaves behind, and whether it threw.
InitView(id, data) ==
    IF EngineShow(Ready, data) = "throw"
    THEN [threw |-> TRUE, view |-> view, scheds |-> scheds, raf |-> raf,
          calls |-> <<Call("show", NoView, 0)>>, drawn |-> 0]
    ELSE [threw |-> data = "BadRender", view |-> id,
          scheds |-> Append(scheds, [req |-> FALSE, own |-> id]),
          raf |-> Append(raf, 0),
          calls |-> <<Call("show", NoView, 0), Call("render", id, 0)>>, drawn |-> 1]

\* show_data(data) for load id: init_view inside try/catch.
ShowData(id, data) ==
    LET r == InitView(id, data) IN
    /\ view' = r.view
    /\ scheds' = r.scheds
    /\ raf' = r.raf
    /\ calls' = r.calls
    /\ renders' = Drawn(r.drawn)
    /\ loads' = [loads EXCEPT ![id].st = "done"]
    /\ IF r.threw
       THEN Display(ErrorMsg(script))
       ELSE /\ dropHidden' = (dropHidden \/ script = "index")
            /\ UNCHANGED msg

NewLoad(src) == [src |-> src, st |-> "reading"]

Init ==
    /\ script \in Scripts
    /\ boot0 = IF script = "index" THEN "pending" ELSE "none"
    /\ boot = "pending"
    /\ loads = <<>>
    /\ view = NoView
    /\ scheds = <<>>
    /\ raf = <<>>
    /\ msg = ""
    /\ dropHidden = FALSE
    /\ calls = <<>>
    /\ renders = 0
    /\ reqs = FALSE
    /\ interacted = FALSE
    /\ last = Step("init", 0, "", FALSE, 0)

\* index.js:1-4: wasm_bindgen(...).catch(console.error).then(display("Drop a PDF here"))
Boot0Settle ==
    /\ boot0 = "pending"
    /\ \E ok \in BOOLEAN :
        /\ boot0' = IF ok THEN "ok" ELSE "failed"
        /\ last' = Step("boot0", 0, boot0', FALSE, 0)
    /\ Display("Drop a PDF here")
    /\ calls' = <<>>
    /\ UNCHANGED <<script, boot, loads, view, scheds, raf, renders, reqs, interacted>>

\* wasm_bindgen(...).catch(console.error).then(show_logo): the catch turns a
\* rejection into a resolved promise, so show_logo runs either way.
BootSettle ==
    /\ boot = "pending"
    /\ \E ok \in BOOLEAN :
        /\ boot' = IF ok THEN "ok" ELSE "failed"
        /\ last' = Step("boot", 0, boot', FALSE, 0)
    /\ loads' = Append(loads, NewLoad("url"))
    /\ calls' = <<>>
    /\ UNCHANGED <<script, boot0, view, scheds, raf, msg, dropHidden, renders, reqs, interacted>>

\* show(file): a FileReader starts reading.
Show ==
    /\ Cardinality(FileLoads) < MaxLoads
    /\ loads' = Append(loads, NewLoad("file"))
    /\ calls' = <<>>
    /\ last' = Step("show", Len(loads) + 1, "", FALSE, 0)
    /\ interacted' = TRUE
    /\ UNCHANGED <<script, boot0, boot, view, scheds, raf, msg, dropHidden, renders, reqs>>

\* drop_handler(e)
DropHandler == Show

\* open(): input.onchange
OpenChange == Show

\* reader.onload, or the fetch chain's last then: show_data(bytes).
LoadComplete ==
    \E id \in Reading, data \in Data :
        /\ ShowData(id, data)
        /\ last' = Step("complete", id, data, FALSE, 0)
        /\ UNCHANGED <<script, boot0, boot, reqs, interacted>>

\* Mutant of LoadError: the failure is caught and a built-in document is shown
\* in place of the one that could not be read (`.catch(() => show_data(builtin))`).
LoadErrorFallsBack ==
    \E id \in Reading :
        /\ ShowData(id, "Good")
        /\ last' = Step("read_error", id, "", FALSE, 0)
        /\ UNCHANGED <<script, boot0, boot, reqs, interacted>>

\* The read or the fetch fails: no handler is registered for it.
LoadError ==
    \E id \in Reading :
        /\ loads' = [loads EXCEPT ![id].st = "done"]
        /\ calls' = <<>>
        /\ last' = Step("read_error", id, "", FALSE, 0)
        /\ UNCHANGED <<script, boot0, boot, view, scheds, raf, msg, dropHidden, renders, reqs, interacted>>

\* One key, pointer or resize event: every registered listener of its kind
\* runs, in registration order.
InputEvent ==
    /\ \E rets \in [DOMAIN scheds -> BOOLEAN] :
        LET st == Dispatch([scheds |-> scheds, raf |-> raf, k |-> reqs], 1, rets) IN
        /\ scheds' = st.scheds
        /\ raf' = st.raf
        /\ reqs' = st.k
    /\ \E kind \in Kinds :
        /\ calls' = CallsOf(Handler(script, kind), [i \in DOMAIN scheds |-> 1], 1)
        /\ last' = Step("event", 0, kind, FALSE, 0)
    /\ interacted' = TRUE
    /\ UNCHANGED <<script, boot0, boot, loads, view, msg, dropHidden, renders>>

\* One browser frame: every callback in the list runs, the list is emptied.
\* The step records whether some draw step threw.
Frame ==
    /\ \E threw \in SUBSET {i \in DOMAIN raf : raf[i] > 0} :
        /\ scheds' = RunFrame(scheds, raf, 1, threw)
        /\ last' = Step("frame", 0, IF threw = {} THEN "" ELSE "throw", reqs, Count(raf))
    /\ calls' = CallsOf("animation_frame", raf, 1)
    /\ renders' = Drawn(Count(raf))
    /\ raf' = [i \in DOMAIN raf |-> 0]
    /\ reqs' = FALSE
    /\ UNCHANGED <<script, boot0, boot, loads, view, msg, dropHidden, interacted>>

Next ==
    \/ Boot0Settle
    \/ BootSettle
    \/ DropHandler
    \/ OpenChange
    \/ LoadComplete
    \/ LoadError
    \/ InputEvent
    \/ Frame

Spec == Init /\ [][Next]_vars

\* The page running src/unnamed/part_000 alone.
InitPart == Init /\ script = "part_000"

NextPart ==
    \/ BootSettle
    \/ DropHandler
    \/ OpenChange
    \/ LoadComplete
    \/ LoadError
    \/ InputEvent
    \/ Frame

SpecPart == InitPart /\ [][NextPart]_vars

\* The browser runs the callbacks passed to requestAnimationFrame.
FairPart == SpecPart /\ WF_vars(Frame)

TypeOK ==
    /\ script \in Scripts
    /\ boot0 \in {"none", "pending", "ok", "failed"}
    /\ boot \in {"pending", "ok", "failed"}
    /\ view \in {NoView} \cup DOMAIN loads
    /\ \A i \in DOMAIN scheds : scheds[i].req \in BOOLEAN /\ scheds[i].own \in DOMAIN loads
    /\ DOMAIN raf = DOMAIN scheds
    /\ dropHidden \in BOOLEAN
    /\ interacted \in BOOLEAN
    /\ reqs \in BOOLEAN

(***************************************************************************)
(* Properties                                                              *)
(***************************************************************************)

\* No bootstrap promise has settled yet.
BootPending == boot = "pending" /\ boot0 \in {"none", "pending"}

\* The engine methods the input listeners call.
InputOps == {"key_down", "key_up", "mouse_move", "mouse_up", "mouse_down", "resize"}

\* Some engine call of the last step was made through method op.
Called(op) == \E j \in DOMAIN calls : calls[j].op = op

\* C1: last write wins on overlapping loads. For files A and B, B the load
\* issued last: in the step after which both reads have completed, the active
\* view is the one made from B's bytes, whichever read completed last. (When
\* A's read is the later one, B was issued before A completed, so the two
\* loads overlapped.)
C1_LastWriteWins ==
    [][\A a, b \in DOMAIN loads :
          ( /\ a < b
            /\ b = Len(loads)
            /\ loads[a].src = "file" /\ loads[b].src = "file"
            /\ loads'[a].st = "done" /\ loads'[b].st = "done"
            /\ last'.act = "complete"
            /\ \/ last'.id = b /\ last'.kind = "Good" /\ Ready
               \/ last'.id = a /\ loads[b].st = "done" /\ view = b )
          => view' = b]_vars

\* C2: at most one requestAnimationFrame callback is scheduled and not yet fired.
C2_AtMostOneFrame == Count(raf) <= 1

\* C3: once the bootstrap promise has failed nothing further is attempted:
\* logo.pdf is not fetched and no engine call is made.
C3_BootFailureIsTerminal ==
    boot = "failed" =>
        /\ \A i \in DOMAIN loads : loads[i].src # "url"
        /\ calls = <<>>

\* C4: wasm_bindgen.show is never invoked while bootstrap is still pending.
C4_NoShowBeforeBoot == Called("show") => ~BootPending

\* C5: coalescing. A frame draws exactly min(1, k) times, k the number of
\* check(true) calls since the frame before it: once if there was any, else
\* not at all.
C5_Coalescing ==
    last.act = "frame" => last.n = (IF last.k THEN 1 ELSE 0)

\* The program's own state: everything but the record of the last step.
progVars == <<script, boot0, boot, loads, view, scheds, raf, msg, dropHidden>>

\* Every engine call of the last step but wasm_bindgen.show was made on handle v.
AllOn(v) == \A j \in DOMAIN calls : calls[j].op # "show" => calls[j].v = v

\* C6: when wasm_bindgen.show throws, the load ends in the error message and
\* the active view, its listeners and its pending frames are as before; input
\* events and frames keep reaching the active view; and a well-formed buffer
\* loaded while the engine is up installs its view, whatever came before.
C6_RejectedBufferKeepsView ==
    [][ /\ (last'.act = "complete" /\ (~Ready \/ last'.kind = "BadParse"))
            => /\ view' = view
               /\ scheds' = scheds
               /\ raf' = raf
               /\ msg' = ErrorMsg(script)
        /\ (last'.act = "complete" /\ Ready /\ last'.kind = "Good")
            => /\ view' = last'.id
               /\ msg' = msg
               /\ Len(scheds') = Len(scheds) + 1
        /\ (last'.act = "event" /\ view # NoView)
            => /\ calls' # <<>>
               /\ AllOn(view)'
               /\ view' = view
        /\ (last'.act = "frame" /\ Count(raf) > 0)
            => /\ Len(calls') = Count(raf)
               /\ AllOn(view)'
               /\ view' = view ]_vars

\* A buffer was rejected while an earlier view was active.
C6_Witness ==
    /\ last.act = "complete"
    /\ Ready /\ last.kind = "BadParse"
    /\ view # NoView
    /\ msg = ErrorMsg(script)

\* C7: an input event reaches the engine only once bootstrap has completed
\* and a view exists; an earlier event, of any kind, is dropped: it makes no
\* engine call and leaves no trace in the program's state, and no later step
\* that is not an input event forwards anything.
C7_EarlyEventsDropped ==
    [][ /\ (last'.act = "event" /\ calls' # <<>>) => (Ready /\ view # NoView)
        /\ (last'.act = "event" /\ (~Ready \/ view = NoView))
            => (calls' = <<>> /\ UNCHANGED progVars /\ reqs' = reqs)
        /\ (last'.act # "event")
            => \A j \in DOMAIN calls' : calls'[j].op \notin InputOps ]_vars

\* An event was dispatched while bootstrap was still pending.
C7_Witness ==
    /\ last.act = "event"
    /\ last.kind = "resize"
    /\ boot = "pending"
    /\ calls = <<>>

\* C8: every input forward, resize and draw call is made on the view installed
\* last, also by listeners and frame callbacks that belong to an earlier one.
C8_OnlyActiveViewCalled == AllOn(view)

\* A frame callback of a scheduler created with an earlier view has run.
C8_Witness ==
    /\ last.act = "frame"
    /\ \E j \in DOMAIN calls : scheds[calls[j].by].own # view

\* show_logo's load is the only one so far, the user has done nothing, and
\* its show_data returned normally.
LogoShown ==
    /\ ~interacted
    /\ loads = <<[src |-> "url", st |-> "done"]>>
    /\ view = 1
    /\ msg # ErrorMsg(script)

\* C10: after bootstrap, fetch and parse of logo.pdf succeeded, and with no
\* user interaction, the document has been drawn exactly once and no frame is
\* scheduled.
C10_OneRenderOnStartup ==
    (boot = "ok" /\ LogoShown) => (renders = 1 /\ Count(raf) = 0)

\* The logo is shown and frames have fired since.
C10_Witness ==
    /\ boot = "ok"
    /\ LogoShown
    /\ last.act = "frame"

\* C9: when the FileReader ends in error, a message is shown and the active
\* view stays as it was.
C9_ReadErrorReported ==
    [][(last'.act = "read_error" /\ loads[last'.id].src = "file")
        => (msg' \in {"oops", "exception"} /\ view' = view)]_vars

\* Scheduler i has a frame callback in the browser's list.
Scheduled(i) == raf[i] > 0

\* Some `requested` flag is set.
Requested == \E i \in DOMAIN scheds : scheds[i].req

\* The last step was a frame in which the engine's animation_frame was called.
Drew == last.act = "frame" /\ Called("animation_frame")

\* C11: a `requested` flag is never true with no callback of its scheduler in
\* the browser's list (so a flag that is true is cleared by the next frame and
\* a later request schedules again), and, the browser running the callbacks it
\* was given, whenever check(true) has set a flag a later frame calls the
\* engine's animation_frame and leaves no flag set.
C11_NoStarvation ==
    /\ [](\A i \in DOMAIN scheds : scheds[i].req => Scheduled(i))
    /\ Requested ~> (Drew /\ ~Requested)

\* C11 witness: a frame has just run the callback of a scheduler that was
\* asked to redraw, and no flag is left set.
C11_Witness == last.act = "frame" /\ last.k /\ Drew /\ ~Requested

\* C12: once a view exists, an input event is forwarded to the engine exactly
\* once, on the active view, however many loads have succeeded before.
C12_ForwardedOnce ==
    (last.act = "event" /\ view # NoView) => (Len(calls) = 1 /\ AllOn(view))

\* The engine calls of the last step made by a listener or callback of scheduler i.
CallsBy(i) == {j \in DOMAIN calls : calls[j].by = i}

\* C13: a frame leaves the flag of every scheduler whose callback it ran
\* clear, whether or not the draw step threw; each callback run calls the
\* engine's animation_frame exactly once and the frame makes no other engine
\* call; no other step calls animation_frame.
C13_ClearThenDrawOnce ==
    [][ /\ last'.act = "frame" =>
            /\ \A i \in DOMAIN scheds :
                  /\ Scheduled(i) => ~scheds'[i].req
                  /\ Cardinality(CallsBy(i)') = raf[i]
            /\ \A j \in DOMAIN calls' : calls'[j].op = "animation_frame"
            /\ Len(calls') = Count(raf)
        /\ last'.act # "frame" => ~Called("animation_frame")'
      ]_vars

\* C13 witness: a frame ran a callback whose draw step threw, and the flags
\* are clear.
C13_Witness ==
    last.act = "frame" /\ last.kind = "throw" /\ Drew /\ ~Requested

\* C14: a load that ends in show_data's catch leaves the active view, the
\* registered listeners with their flags, and the scheduled callbacks as they
\* were, whether wasm_bindgen.show or the first render() threw.
C14_ErrorPathKeepsState ==
    [][ (last'.act = "complete"
         /\ (~Ready \/ last'.kind \in {"BadParse", "BadRender"}))
        => (msg' = ErrorMsg(script) /\ view' = view /\ scheds' = scheds /\ raf' = raf)
      ]_vars

\* C15: every engine call an input event causes is the handler of the event's
\* own kind.
C15_SameKindHandler ==
    last.act = "event" =>
        \A j \in DOMAIN calls :
            <<last.kind, calls[j].op>> \in
                { <<"keydown", "key_down">>, <<"keyup", "key_up">>,
                  <<"mousemove", "mouse_move">>, <<"mouseup", "mouse_up">>,
                  <<"mousedown", "mouse_down">>, <<"resize", "resize">> }

\* Bootstrap resolved, the fetch of logo.pdf failed, and no load has ended in
\* show_data's catch: the fetch is over, no init_view ran for it, and no
\* error message was displayed.
LogoFailed ==
    /\ boot = "ok"
    /\ msg # ErrorMsg(script)
    /\ \E u \in DOMAIN loads :
          /\ loads[u] = [src |-> "url", st |-> "done"]
          /\ \A i \in DOMAIN scheds : scheds[i].own # u

\* C16: after bootstrap resolved, a failing fetch of logo.pdf changes neither
\* the view nor the listeners, makes no engine call and leaves #drop as it
\* is; with no other load shown there is then no view, no draw call and #drop
\* is not hidden; and a well-formed file read after that becomes the view and
\* is rendered.
C16_LogoFailureNonFatal ==
    [][ /\ (last'.act = "read_error" /\ loads[last'.id].src = "url" /\ boot = "ok")
            => /\ view' = view /\ scheds' = scheds /\ raf' = raf
               /\ calls' = <<>> /\ renders' = renders /\ dropHidden' = dropHidden
        /\ (LogoFailed /\ scheds = <<>>)'
            => (view = NoView /\ renders = 0 /\ ~dropHidden)'
        /\ (LogoFailed /\ last'.act = "complete" /\ loads[last'.id].src = "file"
              /\ last'.kind = "Good")
            => /\ view' = last'.id
               /\ calls' = <<Call("show", NoView, 0), Call("render", last'.id, 0)>>
               /\ msg' = msg
      ]_vars

\* C16 witness: the fetch of logo.pdf failed after bootstrap, and the first
\* view is that of a file read afterwards, just rendered.
C16_Witness ==
    /\ LogoFailed /\ Len(scheds) = 1
    /\ last.act = "complete" /\ last.kind = "Good"
    /\ loads[last.id].src = "file" /\ view = last.id
    /\ Called("render")

\* The promises of the wasm_bindgen("pkg/pdf_view_bg.wasm") calls the script
\* makes at page load.
Bootstraps == IF boot0 = "none" THEN <<boot>> ELSE <<boot0, boot>>

\* The continuations chained to them that have run.
Continued == {i \in DOMAIN Bootstraps : Bootstraps[i] # "pending"}

\* C17: the page issues one bootstrap call, and once bootstrap is over
\* exactly one continuation has run.
C17_BootstrapOnce ==
    /\ Cardinality(Continued) <= 1
    /\ (\A i \in DOMAIN Bootstraps : Bootstraps[i] # "pending")
         => (Len(Bootstraps) = 1 /\ Cardinality(Continued) = 1)

\* C18: the `requested` flag of a scheduler is true exactly when one
\* animation_frame callback of that scheduler is in the browser's list, no
\* scheduler ever has more than one there, and so the list never holds more
\* callbacks than there are schedulers.
C18_FlagIffOneCallback ==
    /\ \A i \in DOMAIN scheds :
          /\ scheds[i].req <=> raf[i] = 1
          /\ raf[i] <= 1
    /\ Count(raf) <= Len(scheds)

\* C18 witness: of two schedulers one has its callback pending with its flag
\* set, the other has neither.
C18_Witness ==
    \E i, j \in DOMAIN scheds :
        /\ scheds[i].req /\ raf[i] = 1
        /\ ~scheds[j].req /\ raf[j] = 0
====
